---- MODULE Spec2Model ----
(***************************************************************************)
(* A model of adventurelib (src/adventurelib.py): the Room graph with its  *)
(* direction table, the command registry filled by _register/when, and the *)
(* read-dispatch loop of start().                                          *)
(*                                                                         *)
(* Python strings are modelled as sequences of one-character strings, so   *)
(* that str.islower, str.isupper, str.isalpha, str.lower, str.strip and    *)
(* str.split are computed, not assumed.                                    *)
(***************************************************************************)
EXTENDS Integers, Sequences, FiniteSets, TLC

(***************************************************************************)
(* Python str methods used by the library                                  *)
(***************************************************************************)
\* The cased letters: each uppercase letter with its lowercase form.
ToLower ==
    [ A |-> "a", B |-> "b", C |-> "c", D |-> "d", E |-> "e", F |-> "f",
      G |-> "g", H |-> "h", I |-> "i", J |-> "j", K |-> "k", L |-> "l",
      M |-> "m", N |-> "n", O |-> "o", P |-> "p", Q |-> "q", R |-> "r",
      S |-> "s", T |-> "t", U |-> "u", V |-> "v", W |-> "w", X |-> "x",
      Y |-> "y", Z |-> "z" ]

UpperChars == DOMAIN ToLower

LowerChars == {ToLower[c] : c \in UpperChars}

CharIsLower(c) == c \in LowerChars

CharIsUpper(c) == c \in UpperChars

CharIsCased(c) == CharIsLower(c) \/ CharIsUpper(c)

\* Every alphabetic character of the model's alphabet is a cased letter.
CharIsAlpha(c) == CharIsCased(c)

CharIsSpace(c) == c = " "

CharLower(c) == IF CharIsUpper(c) THEN ToLower[c] ELSE c

\* str.islower(): at least one cased character, and no uppercase one.
str_islower(s) ==
    /\ \E i \in DOMAIN s : CharIsCased(s[i])
    /\ \A i \in DOMAIN s : ~CharIsUpper(s[i])

\* str.isupper(): at least one cased character, and no lowercase one.
str_isupper(s) ==
    /\ \E i \in DOMAIN s : CharIsCased(s[i])
    /\ \A i \in DOMAIN s : ~CharIsLower(s[i])

\* str.isalpha(): non-empty and every character alphabetic.
str_isalpha(s) ==
    /\ Len(s) > 0
    /\ \A i \in DOMAIN s : CharIsAlpha(s[i])

\* str.lower()
str_lower(s) == [i \in DOMAIN s |-> CharLower(s[i])]

RECURSIVE str_lstrip(_)
str_lstrip(s) ==
    IF s # << >> /\ CharIsSpace(Head(s)) THEN str_lstrip(Tail(s)) ELSE s

RECURSIVE str_rstrip(_)
str_rstrip(s) ==
    IF s # << >> /\ CharIsSpace(s[Len(s)])
    THEN str_rstrip(SubSeq(s, 1, Len(s) - 1))
    ELSE s

\* str.strip()
str_strip(s) == str_rstrip(str_lstrip(s))

\* str.split() without arguments: the maximal runs of non-whitespace
\* characters, in order.  cur is the word being read, acc the words so far.
RECURSIVE SplitFrom(_, _, _)
SplitFrom(s, cur, acc) ==
    IF s = << >>
    THEN IF cur = << >> THEN acc ELSE Append(acc, cur)
    ELSE IF CharIsSpace(Head(s))
         THEN SplitFrom(Tail(s), << >>,
                        IF cur = << >> THEN acc ELSE Append(acc, cur))
         ELSE SplitFrom(Tail(s), Append(cur, Head(s)), acc)

str_split(s) == SplitFrom(s, << >>, << >>)

\* ' '.join of two and of three words
Join2(a, b) == a \o << " " >> \o b

Join3(a, b, c) == a \o << " " >> \o b \o << " " >> \o c

None == "None"

(***************************************************************************)
(* Attribute and direction names                                           *)
(***************************************************************************)
north == << "n", "o", "r", "t", "h" >>

south == << "s", "o", "u", "t", "h" >>

east == << "e", "a", "s", "t" >>

west == << "w", "e", "s", "t" >>

up == << "u", "p" >>

down == << "d", "o", "w", "n" >>

Up == << "U", "p" >>

\* The rooms of a game, and the attribute names game code assigns or
\* declares.  The names are distinct from the names the Room class itself
\* defines (exit, exits, add_direction, _directions).
Rooms == {"r1", "r2", "r3"}

AttrNames == {north, south, up, down, Up}

NewNames == {up, down, Up}

AllNames == {north, south, east, west} \cup AttrNames

\* The number of Room operations of a run.
MaxRoomOps == 3

VARIABLES
    directions,  \* Room._directions: declared direction -> its reverse
    attrs,       \* attrs[r][n]: getattr(r, n, None), the exit slot n of r
    roomOp,      \* the last Room operation and its outcome
    nRoomOps,    \* the number of Room operations so far
    commands,    \* the command registry: a list of (match, func, kwargs)
    pc,          \* "decl" before start(), "loop" inside its while loop,
                 \* "done" after EOF, "exited" after SystemExit,
                 \* "crashed" after another exception left start()
    context,     \* the process-wide Context that set_context sets;
                 \* adventurelib.py itself defines and reads none
    cmdOp,       \* the last registry or loop operation and its outcome
    inputLeft,   \* the lines standard input still holds before its end
    items,       \* the Item objects: items[x] is the Item of identity x
    bags,        \* the Bag objects: bags[b] is the set of members of Bag b
    classBag,    \* classBag[c]: the Bag in the class dict of c as "items",
                 \* or NoBag
    roomObjs,    \* the Room instances: their class and the Bag in their
                 \* own dict as "items", or NoBag
    bagOp,       \* the last Bag operation and its outcome
    nBagOps      \* the number of Bag operations so far

roomVars == << directions, attrs, roomOp, nRoomOps >>

cmdVars == << commands, pc, context, cmdOp >>

bagVars == << items, bags, classBag, roomObjs, bagOp, nBagOps >>

vars == << directions, attrs, roomOp, nRoomOps, commands, pc, context, cmdOp,
           inputLeft, items, bags, classBag, roomObjs, bagOp, nBagOps >>

(***************************************************************************)
(* class Room                                                              *)
(***************************************************************************)
\* dict assignment d[k] = v
DictSet(d, k, v) ==
    [x \in DOMAIN d \cup {k} |-> IF x = k THEN v ELSE d[x]]

\* A variant that checks the presence of forward only.
add_direction_raises_forward(forward, reverse) ==
    IF ~str_islower(forward) THEN "InvalidCommand"
    ELSE IF forward \in DOMAIN directions THEN "KeyError"
    ELSE IF ~str_islower(reverse) THEN "InvalidCommand"
    ELSE "none"

\* The exception add_direction raises, "none" when it raises nothing: the
\* loop checks forward, then reverse, each for case and then for presence.
add_direction_raises(forward, reverse) ==
    IF ~str_islower(forward) THEN "InvalidCommand"
    ELSE IF forward \in DOMAIN directions THEN "KeyError"
    ELSE IF ~str_islower(reverse) THEN "InvalidCommand"
    ELSE IF reverse \in DOMAIN directions THEN "KeyError"
    ELSE "none"

\* Room.add_direction(forward, reverse).  The class attributes it sets to
\* None are the defaults getattr falls back to; attrs already holds None
\* for a slot no instance has assigned.
add_direction(forward, reverse) ==
    /\ nRoomOps < MaxRoomOps
    /\ nRoomOps' = nRoomOps + 1
    /\ LET raised == add_direction_raises(forward, reverse)
       IN  /\ roomOp' = [op |-> "add_direction", forward |-> forward,
                         reverse |-> reverse, raised |-> raised,
                         before |-> directions]
           /\ directions' =
                 IF raised = "none"
                 THEN DictSet(DictSet(directions, forward, reverse),
                              reverse, forward)
                 ELSE directions
    /\ UNCHANGED << attrs, cmdVars, inputLeft, bagVars >>

\* object.__setattr__(obj, name, value)
object_setattr(a, obj, name, value) ==
    [a EXCEPT ![obj] = [@ EXCEPT ![name] = value]]

\* A variant that writes the forward slot only.
setattr_forward_only(self, name, value) ==
    object_setattr(attrs, self, name, value)

\* A variant that also withdraws the reverse exit of the room the slot
\* pointed to before.
setattr_clear_stale(self, name, value) ==
    LET old == attrs[self][name]
        cleared == IF old \in Rooms /\ name \in DOMAIN directions
                   THEN object_setattr(attrs, old, directions[name], None)
                   ELSE attrs
    IN  IF value \in Rooms
        THEN object_setattr(object_setattr(cleared, self, name, value),
                            value, directions[name], self)
        ELSE object_setattr(cleared, self, name, value)

\* The attribute table after self.name = value, when nothing is raised.
setattr_result(self, name, value) ==
    IF value \in Rooms
    THEN LET reverse == directions[name]
         IN  object_setattr(object_setattr(attrs, self, name, value),
                            value, reverse, self)
    ELSE object_setattr(attrs, self, name, value)

\* Room.__setattr__(self, name, value).  The name InvalidDirection of line
\* 85 is defined nowhere in the module (its exception class is
\* InvalidCommand, line 22), so evaluating it raises NameError.
__setattr__(self, name, value) ==
    /\ nRoomOps < MaxRoomOps
    /\ nRoomOps' = nRoomOps + 1
    /\ LET raised == IF value \in Rooms /\ name \notin DOMAIN directions
                     THEN "NameError"
                     ELSE "none"
       IN  /\ roomOp' = [op |-> "setattr", self |-> self, name |-> name,
                         value |-> value, raised |-> raised,
                         before |-> attrs]
           /\ attrs' = IF raised = "none"
                       THEN setattr_result(self, name, value)
                       ELSE attrs
    /\ UNCHANGED << directions, cmdVars, inputLeft, bagVars >>

\* Room.exit(self, direction): the exception raised ("none" when none) and
\* the value returned.
exit(self, direction) ==
    IF direction \notin DOMAIN directions
    THEN [raised |-> "KeyError", value |-> None]
    ELSE [raised |-> "none", value |-> attrs[self][direction]]

\* The characters of the names in the order of their code points.
CodeOrder ==
    << "A", "B", "C", "D", "E", "F", "G", "H", "I", "J", "K", "L", "M",
       "N", "O", "P", "Q", "R", "S", "T", "U", "V", "W", "X", "Y", "Z",
       "a", "b", "c", "d", "e", "f", "g", "h", "i", "j", "k", "l", "m",
       "n", "o", "p", "q", "r", "s", "t", "u", "v", "w", "x", "y", "z" >>

ord(c) == CHOOSE i \in DOMAIN CodeOrder : CodeOrder[i] = c

\* a < b for two str: the first position where they differ decides, and a
\* proper prefix comes first.
RECURSIVE str_lt(_, _)
str_lt(a, b) ==
    IF b = << >> THEN FALSE
    ELSE IF a = << >> THEN TRUE
    ELSE IF Head(a) # Head(b) THEN ord(Head(a)) < ord(Head(b))
    ELSE str_lt(Tail(a), Tail(b))

\* sorted(S) for a collection of distinct str.
RECURSIVE sorted(_)
sorted(S) ==
    IF S = {} THEN << >>
    ELSE LET m == CHOOSE x \in S : \A y \in S \ {x} : str_lt(x, y)
         IN  << m >> \o sorted(S \ {m})

\* A variant of exits that lists every declared direction.
exits_declared(self) == sorted(DOMAIN directions)

\* Room.exits(self), lines 78-80.  getattr(self, d) is true for a Room and
\* false for None.
exits(self) == sorted({d \in DOMAIN directions : attrs[self][d] # None})

\* A call of room.exit(direction) and its outcome.
call_exit(self, direction) ==
    /\ nRoomOps < MaxRoomOps
    /\ nRoomOps' = nRoomOps + 1
    /\ roomOp' = [op |-> "exit", self |-> self, direction |-> direction,
                  result |-> exit(self, direction),
                  before |-> [directions |-> directions, attrs |-> attrs]]
    /\ UNCHANGED << directions, attrs, cmdVars, inputLeft, bagVars >>

\* A call of room.exits() and its outcome.
call_exits(self) ==
    /\ nRoomOps < MaxRoomOps
    /\ nRoomOps' = nRoomOps + 1
    /\ roomOp' = [op |-> "exits", self |-> self, result |-> exits(self),
                  before |-> [directions |-> directions, attrs |-> attrs]]
    /\ UNCHANGED << directions, attrs, cmdVars, inputLeft, bagVars >>

\* The module's own declarations: north/south and east/west.
InitDirections ==
    (north :> south) @@ (south :> north) @@ (east :> west) @@ (west :> east)

InitRoom ==
    /\ directions = InitDirections
    /\ attrs = [r \in Rooms |-> [n \in AllNames |-> None]]
    /\ roomOp = [op |-> "init"]
    /\ nRoomOps = 0

NextRoom ==
    \/ \E forward \in NewNames \cup {north}, reverse \in NewNames \cup {north} :
          add_direction(forward, reverse)
    \/ \E self \in Rooms, name \in AttrNames, value \in Rooms \cup {None} :
          __setattr__(self, name, value)
    \/ \E self \in Rooms, direction \in AttrNames : call_exit(self, direction)
    \/ \E self \in Rooms : call_exits(self)

(***************************************************************************)
(* Words, command declarations and input lines                             *)
(***************************************************************************)
take == << "t", "a", "k", "e" >>

rusty == << "r", "u", "s", "t", "y" >>

mallet == << "m", "a", "l", "l", "e", "t" >>

look == << "l", "o", "o", "k" >>

around == << "a", "r", "o", "u", "n", "d" >>

quit == << "q", "u", "i", "t" >>

give == << "g", "i", "v", "e" >>

cast == << "c", "a", "s", "t" >>

item == << "i", "t", "e", "m" >>

magic == << "m", "a", "g", "i", "c" >>

ctx == << "c", "o", "n", "t", "e", "x", "t" >>

ITEM == << "I", "T", "E", "M" >>

MAGIC == << "M", "A", "G", "I", "C" >>

magic_aura == << "m", "a", "g", "i", "c", "_", "a", "u", "r", "a" >>

default == << "d", "e", "f", "a", "u", "l", "t" >>

\* Python's None as a keyword-argument value: a one-element sequence whose
\* element is no character, hence different from every str.
NoneArg == << None >>

\* The command declarations game code passes to when()/_register.
Decls ==
    { Join2(take, ITEM),                    \* "take ITEM"
      Join3(take, rusty, mallet),           \* "take rusty mallet"
      look,                                 \* "look"
      Join3(give, ITEM, ITEM),              \* "give ITEM ITEM"
      << "T", "a", "k", "e" >>,             \* "Take"
      << "g", "o", "2" >>,                  \* "go2"
      Join2(cast, MAGIC) }                  \* "cast MAGIC"

\* The handlers game code registers, by name, and the parameter names
\* inspect.signature reports for each.
FuncParams ==
    [ look |-> {}, take |-> {item}, cast |-> {magic},
      cast_in_context |-> {magic, ctx} ]

UserFuncs == DOMAIN FuncParams

\* The keyword arguments game code passes to when().
KwargsSet ==
    { << >>,
      (ctx :> magic_aura),
      (ctx :> magic_aura) @@ (magic :> NoneArg) }

\* The lines the player types.
Lines ==
    { Join3(take, rusty, mallet),                   \* "take rusty mallet"
      Join2(take, rusty),                           \* "take rusty"
      take,                                         \* "take"
      look,                                         \* "look"
      Join2(look, around),                          \* "look around"
      << " ", "L", "o", "o", "k", " " >>,           \* " Look "
      quit,                                         \* "quit"
      << "Q", "U", "I", "T" >>,                     \* "QUIT"
      Join3(give, rusty, mallet),                   \* "give rusty mallet"
      << "?" >>,                                    \* "?"
      << >>,                                        \* ""
      << " ", " " >> }                              \* "  "

Contexts == {default, magic_aura}

\* The number of commands game code registers.
MaxRegs == 2

(***************************************************************************)
(* _register and when                                                      *)
(***************************************************************************)
Placeholder(name) == [ph |-> TRUE, w |-> name]

Literal(w) == [ph |-> FALSE, w |-> w]

Range(s) == {s[i] : i \in DOMAIN s}

\* A variant that takes every word that is not all uppercase as a literal.
RECURSIVE CompileWordsNoMix(_, _, _)
CompileWordsNoMix(words, match, argnames) ==
    IF words = << >>
    THEN [raisedAt |-> 0, match |-> match, argnames |-> argnames]
    ELSE LET w == Head(words)
         IN  IF ~str_isalpha(w)
             THEN [raisedAt |-> 164, match |-> match, argnames |-> argnames]
             ELSE IF str_isupper(w)
             THEN CompileWordsNoMix(Tail(words),
                                    Append(match, Placeholder(str_lower(w))),
                                    Append(argnames, str_lower(w)))
             ELSE CompileWordsNoMix(Tail(words), Append(match, Literal(w)),
                                    argnames)

\* The loop over the words of a declaration (lines 162-179): the pattern
\* and the placeholder names built so far, or the line that raises.
RECURSIVE CompileWords(_, _, _)
CompileWords(words, match, argnames) ==
    IF words = << >>
    THEN [raisedAt |-> 0, match |-> match, argnames |-> argnames]
    ELSE LET w == Head(words)
         IN  IF ~str_isalpha(w)
             THEN [raisedAt |-> 164, match |-> match, argnames |-> argnames]
             ELSE IF str_isupper(w)
             THEN LET arg == str_lower(w)
                  IN  CompileWords(Tail(words),
                                   Append(match, Placeholder(arg)),
                                   Append(argnames, arg))
             ELSE IF str_islower(w)
             THEN CompileWords(Tail(words), Append(match, Literal(w)),
                               argnames)
             ELSE [raisedAt |-> 175, match |-> match, argnames |-> argnames]

\* A variant that accepts a handler with parameters the command does not
\* supply.
SignatureCovers(func, argnames, kwargs) ==
    (Range(argnames) \cup DOMAIN kwargs) \subseteq FuncParams[func]

\* The signature check of lines 181-184.
SignatureMatches(func, argnames, kwargs) ==
    LET func_argnames == FuncParams[func]
        when_argnames == Range(argnames) \cup DOMAIN kwargs
    IN  func_argnames = when_argnames

\* The outcome of _register(command, func, kwargs): the line that raises
\* InvalidCommand (0 when none does) and the entry to append.
RegisterOutcome(command, func, kwargs) ==
    LET c == CompileWords(str_split(command), << >>, << >>)
    IN  IF c.raisedAt # 0
        THEN [raisedAt |-> c.raisedAt]
        ELSE IF ~SignatureMatches(func, c.argnames, kwargs)
        THEN [raisedAt |-> 185]
        ELSE [raisedAt |-> 0,
              entry |-> [match |-> c.match, func |-> func, kwargs |-> kwargs]]

\* A variant of _register that puts the new entry in front of the registry.
register_first(command, func, kwargs) ==
    /\ pc = "decl"
    /\ Len(commands) < 1 + MaxRegs
    /\ LET out == RegisterOutcome(command, func, kwargs)
       IN  /\ cmdOp' = [op |-> "register", command |-> command,
                        func |-> func, kwargs |-> kwargs,
                        raisedAt |-> out.raisedAt, before |-> commands]
           /\ commands' = IF out.raisedAt = 0
                          THEN << out.entry >> \o commands
                          ELSE commands
           /\ pc' = IF out.raisedAt = 0 THEN "decl" ELSE "crashed"
    /\ UNCHANGED << context, inputLeft, roomVars, bagVars >>

\* _register(command, func, kwargs), called by the decorator when() returns.
_register(command, func, kwargs) ==
    /\ pc = "decl"
    /\ Len(commands) < 1 + MaxRegs
    /\ LET out == RegisterOutcome(command, func, kwargs)
       IN  /\ cmdOp' = [op |-> "register", command |-> command,
                        func |-> func, kwargs |-> kwargs,
                        raisedAt |-> out.raisedAt, before |-> commands]
           /\ commands' = IF out.raisedAt = 0
                          THEN Append(commands, out.entry)
                          ELSE commands
           \* InvalidCommand leaves the decorator and ends the program.
           /\ pc' = IF out.raisedAt = 0 THEN "decl" ELSE "crashed"
    /\ UNCHANGED << context, inputLeft, roomVars, bagVars >>

(***************************************************************************)
(* start                                                                   *)
(***************************************************************************)
\* list.insert(0, x)
InsertFirst(l, x) == << x >> \o l

HelpEntry(w) == [match |-> << Literal(w) >>, func |-> "help", kwargs |-> << >>]

\* Lines 223-227 of start(help).
Start(help) ==
    /\ pc = "decl"
    /\ pc' = "loop"
    /\ commands' =
          IF help
          THEN InsertFirst(InsertFirst(commands,
                                       HelpEntry(<< "h", "e", "l", "p" >>)),
                           HelpEntry(<< "?" >>))
          ELSE commands
    /\ cmdOp' = [op |-> "start", help |-> help]
    /\ UNCHANGED << context, inputLeft, roomVars, bagVars >>

\* A variant that pairs with zip up to the end of the pattern, so that
\* trailing input words are ignored.
RECURSIVE AlignPrefix(_, _, _, _)
AlignPrefix(match, ws, i, args) ==
    IF i > Len(match)
    THEN [ok |-> TRUE, args |-> args]
    ELSE IF i > Len(ws)
    THEN [ok |-> FALSE, args |-> args]
    ELSE IF match[i].ph
    THEN AlignPrefix(match, ws, i + 1, DictSet(args, match[i].w, ws[i]))
    ELSE IF match[i].w # ws[i]
    THEN [ok |-> FALSE, args |-> args]
    ELSE AlignPrefix(match, ws, i + 1, args)

\* A variant that pairs with zip: the pairing ends where the pattern or
\* the line ends, whichever is first.
RECURSIVE AlignZip(_, _, _, _)
AlignZip(match, ws, i, args) ==
    IF i > Len(match) \/ i > Len(ws)
    THEN [ok |-> TRUE, args |-> args]
    ELSE IF match[i].ph
    THEN AlignZip(match, ws, i + 1, DictSet(args, match[i].w, ws[i]))
    ELSE IF match[i].w # ws[i]
    THEN [ok |-> FALSE, args |-> args]
    ELSE AlignZip(match, ws, i + 1, args)

\* The inner loop over zip_longest(match, ws), lines 241-247, from position
\* i on: ok is whether the loop ends without break, args the captures.
\* zip_longest pads the shorter sequence with None: word is None past the
\* end of ws; cword is None past the end of match, where it is no
\* Placeholder and differs from every word.
RECURSIVE Align(_, _, _, _)
Align(match, ws, i, args) ==
    IF i > Len(match) /\ i > Len(ws)
    THEN [ok |-> TRUE, args |-> args]
    ELSE IF i > Len(ws)
    THEN [ok |-> FALSE, args |-> args]
    ELSE IF i <= Len(match) /\ match[i].ph
    THEN Align(match, ws, i + 1, DictSet(args, match[i].w, ws[i]))
    ELSE IF i > Len(match) \/ match[i].w # ws[i]
    THEN [ok |-> FALSE, args |-> args]
    ELSE Align(match, ws, i + 1, args)

\* func(**args): the exception the call raises, "none" when it returns.
\* The call fails with TypeError when the keywords are not the parameters
\* of func; sys.exit raises SystemExit; the bodies of help and of the
\* game's handlers are taken to return.
CallRaises(func, args) ==
    IF func = "sys.exit" THEN
        IF DOMAIN args = {} THEN "SystemExit" ELSE "TypeError"
    ELSE IF func = "help" THEN
        IF DOMAIN args = {} THEN "none" ELSE "TypeError"
    ELSE IF DOMAIN args = FuncParams[func] THEN "none" ELSE "TypeError"

\* The record of one call made by the loop.
HandlerCall(i, args) ==
    [fallback |-> FALSE, index |-> i, func |-> commands[i].func,
     args |-> args, raised |-> CallRaises(commands[i].func, args)]

FallbackCall(cmd) ==
    [fallback |-> TRUE, index |-> 0, func |-> "no_command_matches",
     args |-> cmd, raised |-> "none"]

\* A variant without the break of line 250: the scan goes on after a
\* handler returns.
RECURSIVE DispatchNoBreak(_, _, _)
DispatchNoBreak(cmd, ws, i) ==
    IF i > Len(commands)
    THEN << >>
    ELSE LET a == Align(commands[i].match, ws, 1, commands[i].kwargs)
         IN  IF a.ok /\ CallRaises(commands[i].func, a.args) = "none"
             THEN << HandlerCall(i, a.args) >> \o DispatchNoBreak(cmd, ws, i + 1)
             ELSE IF a.ok
             THEN << HandlerCall(i, a.args) >>
             ELSE DispatchNoBreak(cmd, ws, i + 1)

\* A variant whose fallback is not the else of the for loop: it runs after
\* every scan.
RECURSIVE DispatchThenFallback(_, _, _)
DispatchThenFallback(cmd, ws, i) ==
    IF i > Len(commands)
    THEN << FallbackCall(cmd) >>
    ELSE LET a == Align(commands[i].match, ws, 1, commands[i].kwargs)
         IN  IF a.ok /\ CallRaises(commands[i].func, a.args) = "none"
             THEN << HandlerCall(i, a.args), FallbackCall(cmd) >>
             ELSE IF a.ok
             THEN << HandlerCall(i, a.args) >>
             ELSE DispatchThenFallback(cmd, ws, i + 1)

\* The loop over the registry, lines 239-252, from entry i on: the calls
\* of handlers and of no_command_matches it makes, in order.
RECURSIVE Dispatch(_, _, _)
Dispatch(cmd, ws, i) ==
    IF i > Len(commands)
    THEN << FallbackCall(cmd) >>
    ELSE LET a == Align(commands[i].match, ws, 1, commands[i].kwargs)
         IN  IF a.ok
             THEN << HandlerCall(i, a.args) >>
             ELSE Dispatch(cmd, ws, i + 1)

\* One pass of the while loop on a line read by input(), lines 229-253.
\* cmd = input(prompt()).strip() and ws = tuple(cmd.lower().split()),
\* tabulated over the lines the player types.
Stripped == [line \in Lines |-> str_strip(line)]

Words == [line \in Lines |-> str_split(str_lower(str_strip(line)))]

\* A variant without the test of lines 236-237: an empty command is
\* dispatched like any other.
TurnCallsNoSkip(line) == Dispatch(Stripped[line], Words[line], 1)

\* The calls of one pass of the loop: none for an empty command, lines
\* 236-237.
TurnCalls(line) ==
    LET cmd == Stripped[line]
    IN  IF cmd = << >>
        THEN << >>
        ELSE Dispatch(cmd, Words[line], 1)

\* One pass of the while loop on a line that input() returned, lines
\* 230-253.  print() of line 253 runs when a call was made and returned.
TurnEffect(line) ==
    /\ pc = "loop"
    /\ LET calls == TurnCalls(line)
           raised == IF calls = << >> THEN "none"
                     ELSE calls[Len(calls)].raised
       IN  /\ cmdOp' = [op |-> "turn", line |-> line, calls |-> calls,
                        newline |-> (calls # << >> /\ raised = "none"),
                        before |-> [commands |-> commands,
                                    context |-> context]]
           /\ pc' = IF raised = "none" THEN "loop"
                    ELSE IF raised = "SystemExit" THEN "exited"
                    ELSE "crashed"
    /\ UNCHANGED << commands, context, roomVars, bagVars >>

\* A variant in which EOFError does not leave the loop.
EofContinue ==
    /\ pc = "loop"
    /\ pc' = "loop"
    /\ cmdOp' = [op |-> "eof", calls |-> << >>, newline |-> TRUE,
                 raised |-> "none"]
    /\ UNCHANGED << commands, context, roomVars, bagVars >>

\* input() raises EOFError: print() and break, lines 231-233; the loop is
\* the last statement of start().
EofEffect ==
    /\ pc = "loop"
    /\ pc' = "done"
    /\ cmdOp' = [op |-> "eof", calls |-> << >>, newline |-> TRUE,
                 raised |-> "none"]
    /\ UNCHANGED << commands, context, roomVars, bagVars >>

\* A turn and the end of input on a stream of unknown length.
Turn(line) == TurnEffect(line) /\ UNCHANGED inputLeft

Eof == EofEffect /\ UNCHANGED inputLeft

\* input() on a finite stream: it returns the next line while one is left
\* and raises EOFError after the last one.
ReadLine(line) ==
    /\ inputLeft > 0
    /\ inputLeft' = inputLeft - 1
    /\ TurnEffect(line)

ReadEof ==
    /\ inputLeft = 0
    /\ UNCHANGED inputLeft
    /\ EofEffect

\* set_context(new_context), called by handlers (demo_game_rich.py, go).
\* adventurelib_rich.py imports it from adventurelib; adventurelib.py does
\* not define it, and nothing in _register or start reads the context.
set_context(c) ==
    /\ pc = "loop"
    /\ context' = c
    /\ cmdOp' = [op |-> "set_context", context |-> c]
    /\ UNCHANGED << commands, pc, inputLeft, roomVars, bagVars >>

\* The registry as the module creates it, lines 9-11.
InitCommands ==
    << [match |-> << Literal(quit) >>, func |-> "sys.exit", kwargs |-> << >>] >>

InitCmd ==
    /\ commands = InitCommands
    /\ pc = "decl"
    /\ context = default
    /\ cmdOp = [op |-> "init"]

NextCmd ==
    \/ \E command \in Decls, func \in UserFuncs, kwargs \in KwargsSet :
          _register(command, func, kwargs)
    \/ \E help \in BOOLEAN : Start(help)
    \/ \E line \in Lines : Turn(line)
    \/ Eof
    \/ \E c \in Contexts : set_context(c)

(***************************************************************************)
(* Item and Bag, lines 100-154, and the Bag templates of Room.__init__,    *)
(* lines 57-63                                                             *)
(***************************************************************************)
key == << "k", "e", "y" >>

\* Item(name, *aliases), lines 103-105.
Item(name, aliases) == [name |-> name, aliases |-> << name >> \o aliases]

\* The Items the game creates; an Item's identity is its index in items.
InitItems == << Item(mallet, << rusty >>), Item(mallet, << >>),
                Item(key, << >>) >>

\* The names a game searches a Bag for.
BagNames == {mallet, rusty, key}

\* The contents a game gives a Bag it creates, as sets of Item identities.
BagContents == {{}, {1}, {1, 2}}

\* adventurelib.Room and its subclass, adventurelib_rich.py line 300, which
\* defines no __init__ of its own.
Classes == {"al.Room", "Room"}

\* The method resolution order of a class.
Mro(cls) == IF cls = "Room" THEN << "Room", "al.Room" >> ELSE << "al.Room" >>

\* No Bag under the name; Bag identities start at 1.
NoBag == 0

\* _find returns None, line 129; Item identities start at 1.
NoItem == 0

\* The number of Bag operations of a run.
MaxBagOps == 4

\* name in item.aliases, line 127.
HasAlias(x, name) == \E i \in DOMAIN items[x].aliases : items[x].aliases[i] = name

\* Bag._find(name), lines 125-129: the first Item of the iteration that
\* holds the name.  A set iterates in the order of the hashes of its
\* members, which for Items derive from their addresses, so each Item that
\* holds the name can be the first one: the result is one of this set, or
\* None (NoItem) when the set is empty.
_find(self, name) == {x \in bags[self] : HasAlias(x, name)}

\* isinstance(v, str), line 138: a query is a str or an Item.
StrQuery(name) == [kind |-> "str", v |-> name]

ItemQuery(x) == [kind |-> "Item", v |-> << x >>]

\* Bag.__contains__(v), lines 131-141.  Line 141 calls set.__contains__
\* with v in the place of self and no element: a TypeError for every v.
__contains__(self, v) ==
    IF v.kind = "str"
    THEN [raised |-> "none", value |-> (_find(self, v.v) # {})]
    ELSE [raised |-> "TypeError", value |-> FALSE]

\* The members of a set in increasing order.
RECURSIVE SetToSeq(_)
SetToSeq(S) ==
    IF S = {} THEN << >>
    ELSE LET m == CHOOSE x \in S : \A y \in S : x <= y
         IN  << m >> \o SetToSeq(S \ {m})

\* deepcopy(v) of a Bag, line 63: a new Bag whose members are new Items,
\* one copy of each member, with the same name and aliases.
deepcopy(v) ==
    LET members == SetToSeq(bags[v])
        n == Len(members)
    IN  [items |-> items \o [i \in 1..n |-> items[members[i]]],
         bag |-> {Len(items) + i : i \in 1..n}]

\* getattr(room, "items") for a Room instance: its own dict, then the
\* dicts of the classes of its method resolution order.
RECURSIVE ClassLookup(_, _)
ClassLookup(mro, i) ==
    IF i > Len(mro) THEN NoBag
    ELSE IF classBag[mro[i]] # NoBag THEN classBag[mro[i]]
    ELSE ClassLookup(mro, i + 1)

Template(cls) == ClassLookup(Mro(cls), 1)

RoomItems(r) ==
    IF roomObjs[r].items # NoBag THEN roomObjs[r].items
    ELSE Template(roomObjs[r].cls)

\* cls.items = Bag(content), demo_game_rich.py line 11, before any Room is
\* created.
class_bag(cls, content) ==
    /\ nBagOps < MaxBagOps
    /\ roomObjs = << >>
    /\ bags' = Append(bags, content)
    /\ classBag' = [classBag EXCEPT ![cls] = Len(bags) + 1]
    /\ bagOp' = [op |-> "class_bag", cls |-> cls, self |-> Len(bags) + 1]
    /\ nBagOps' = nBagOps + 1
    /\ UNCHANGED << items, roomObjs, roomVars, cmdVars, inputLeft >>

\* Room.__init__ for an instance of cls, lines 57-63: vars(type(self)) is
\* the dict of cls itself, without the dicts of its base classes.
__init__(cls) ==
    /\ nBagOps < MaxBagOps
    /\ LET v == classBag[cls]
           c == deepcopy(v)
       IN  IF v # NoBag
           THEN /\ items' = c.items
                /\ bags' = Append(bags, c.bag)
                /\ roomObjs' = Append(roomObjs,
                                      [cls |-> cls, items |-> Len(bags) + 1])
                /\ bagOp' = [op |-> "__init__", cls |-> cls,
                             room |-> Len(roomObjs) + 1, template |-> v,
                             self |-> Len(bags) + 1]
           ELSE /\ roomObjs' = Append(roomObjs,
                                      [cls |-> cls, items |-> NoBag])
                /\ bagOp' = [op |-> "__init__", cls |-> cls,
                             room |-> Len(roomObjs) + 1, template |-> NoBag,
                             self |-> NoBag]
                /\ UNCHANGED << items, bags >>
    /\ nBagOps' = nBagOps + 1
    /\ UNCHANGED << classBag, roomVars, cmdVars, inputLeft >>

\* set.add(x) on a Bag: Bag inherits it from set.
add(self, x) ==
    /\ nBagOps < MaxBagOps
    /\ bags' = [bags EXCEPT ![self] = @ \cup {x}]
    /\ bagOp' = [op |-> "add", self |-> self, x |-> x, before |-> bags]
    /\ nBagOps' = nBagOps + 1
    /\ UNCHANGED << items, classBag, roomObjs, roomVars, cmdVars, inputLeft >>

\* A variant of take that returns the Item and leaves it in the Bag.
take_keep(self, name) ==
    /\ nBagOps < MaxBagOps
    /\ \E obj \in IF _find(self, name) = {} THEN {NoItem}
                  ELSE _find(self, name) :
          bagOp' = [op |-> "take", self |-> self, name |-> name,
                    obj |-> obj, before |-> bags]
    /\ nBagOps' = nBagOps + 1
    /\ UNCHANGED << bags, items, classBag, roomObjs, roomVars, cmdVars,
                    inputLeft >>

\* Bag.take(name), lines 143-154.
Bag_take(self, name) ==
    /\ nBagOps < MaxBagOps
    /\ \E obj \in IF _find(self, name) = {} THEN {NoItem}
                  ELSE _find(self, name) :
          /\ bags' = IF obj # NoItem
                     THEN [bags EXCEPT ![self] = @ \ {obj}]
                     ELSE bags
          /\ bagOp' = [op |-> "take", self |-> self, name |-> name,
                       obj |-> obj, before |-> bags]
    /\ nBagOps' = nBagOps + 1
    /\ UNCHANGED << items, classBag, roomObjs, roomVars, cmdVars, inputLeft >>

\* v in bag: the call of Bag.__contains__ and its outcome.
contains(self, v) ==
    /\ nBagOps < MaxBagOps
    /\ bagOp' = [op |-> "contains", self |-> self, v |-> v,
                 result |-> __contains__(self, v), before |-> bags]
    /\ nBagOps' = nBagOps + 1
    /\ UNCHANGED << bags, items, classBag, roomObjs, roomVars, cmdVars,
                    inputLeft >>

InitBag ==
    /\ items = InitItems
    /\ bags = << >>
    /\ classBag = [c \in Classes |-> NoBag]
    /\ roomObjs = << >>
    /\ bagOp = [op |-> "init"]
    /\ nBagOps = 0

NextBag ==
    \/ \E cls \in Classes, content \in BagContents : class_bag(cls, content)
    \/ \E cls \in Classes : __init__(cls)
    \/ \E self \in DOMAIN bags, x \in DOMAIN InitItems : add(self, x)
    \/ \E self \in DOMAIN bags, name \in BagNames : Bag_take(self, name)
    \/ \E self \in DOMAIN bags,
          v \in {StrQuery(name) : name \in BagNames}
                \cup {ItemQuery(x) : x \in DOMAIN InitItems} :
          contains(self, v)

(***************************************************************************)
(* Specifications                                                          *)
(***************************************************************************)
\* The number of lines of a finite input stream.
MaxInput == 2

\* The declarations of the runs on a finite input stream.
LoopDecls == {look, Join2(take, ITEM)}

LoopFuncs == {"look", "take"}

Init == InitRoom /\ InitCmd /\ InitBag /\ inputLeft = 0

Next == NextRoom \/ NextCmd \/ NextBag

Spec == Init /\ [][Next]_vars

\* The Room graph alone.
SpecRoom == Init /\ [][NextRoom]_vars

\* The command registry and the interaction loop alone.
SpecCmd == Init /\ [][NextCmd]_vars

\* Items, Bags and the Bags of Room instances alone.
SpecBag == Init /\ [][NextBag]_vars

\* The interaction loop on a finite input stream.
InitLoop == InitRoom /\ InitCmd /\ InitBag /\ inputLeft \in 0..MaxInput

NextLoop ==
    \/ \E command \in LoopDecls, func \in LoopFuncs :
          _register(command, func, << >>)
    \/ \E help \in BOOLEAN : Start(help)
    \/ \E line \in Lines : ReadLine(line)
    \/ ReadEof

\* start() is sequential: once it is in its loop, the next input() call
\* happens, and it either returns a line or raises EOFError.
SpecLoop ==
    /\ InitLoop
    /\ [][NextLoop]_vars
    /\ WF_vars(\E line \in Lines : ReadLine(line))
    /\ WF_vars(ReadEof)

\* The declarations of a game that declares commands of its own for the
\* word quit: the literal "quit" and the single placeholder "ITEM", which
\* captures any one word.
QuitDecls == {quit, ITEM, look}

QuitFuncs == {"look", "take"}

NextQuit ==
    \/ \E command \in QuitDecls, func \in QuitFuncs :
          _register(command, func, << >>)
    \/ \E help \in BOOLEAN : Start(help)
    \/ \E line \in Lines : Turn(line)
    \/ Eof

\* The registry and the loop of such a game.
SpecQuit == Init /\ [][NextQuit]_vars

(***************************************************************************)
(* Properties of the Room graph                                            *)
(***************************************************************************)
\* C1: in every reachable state, for all rooms A and B and every declared
\* direction D, if A's exit in D is B then B's exit in the reverse of D
\* is A.
C1_Reciprocity ==
    \A A \in Rooms, B \in Rooms, D \in DOMAIN directions :
        attrs[A][D] = B => attrs[B][directions[D]] = A

AssignedRoom ==
    /\ roomOp.op = "setattr"
    /\ roomOp.raised = "none"
    /\ roomOp.value \in Rooms

\* C2: right after an assignment room1.a = room2 of a Room to a declared
\* direction a whose reverse is b, room2.exit(b) returns room1 and
\* room1.exit(a) returns room2.
C2_ExitAfterAssign ==
    AssignedRoom =>
        /\ exit(roomOp.value, directions[roomOp.name])
              = [raised |-> "none", value |-> roomOp.self]
        /\ exit(roomOp.self, roomOp.name)
              = [raised |-> "none", value |-> roomOp.value]

\* A direction pair declared during the run, then assigned between two
\* different rooms.
C2_Witness ==
    /\ AssignedRoom
    /\ roomOp.name = up
    /\ directions[up] = down
    /\ roomOp.value # roomOp.self
    /\ exit(roomOp.value, down).value = roomOp.self

(***************************************************************************)
(* Properties of the registry and of the dispatcher                        *)
(***************************************************************************)
IsTurn == cmdOp.op = "turn"

\* A turn on a line that is not empty after stripping.
IsDispatch == IsTurn /\ Stripped[cmdOp.line] # << >>

IsRegister == cmdOp.op = "register"

HandlerCalls == {k \in DOMAIN cmdOp.calls : ~cmdOp.calls[k].fallback}

FallbackCalls == {k \in DOMAIN cmdOp.calls : cmdOp.calls[k].fallback}

\* The registry entries whose pattern aligns with the words ws.
Aligning(ws) ==
    {i \in DOMAIN commands :
        Align(commands[i].match, ws, 1, commands[i].kwargs).ok}

Min(S) == CHOOSE x \in S : \A y \in S : x <= y

\* C3: when the patterns of two or more entries are able to match the line,
\* the handler of the first of them in registry order is invoked, and no
\* handler of a later entry.
C3_FirstMatchWins ==
    IsDispatch =>
        LET able == Aligning(Words[cmdOp.line])
        IN  Cardinality(able) >= 2 =>
              /\ \E k \in HandlerCalls : cmdOp.calls[k].index = Min(able)
              /\ \A k \in HandlerCalls : cmdOp.calls[k].index <= Min(able)

\* Two entries with different handlers align; the first one was called.
C3_Witness ==
    /\ IsDispatch
    /\ \E i, j \in Aligning(Words[cmdOp.line]) :
          /\ i < j
          /\ commands[i].func # commands[j].func
          /\ i = Min(Aligning(Words[cmdOp.line]))
          /\ cmdOp.calls = << HandlerCall(i, commands[i].kwargs) >>

\* The first n words of ws align with a pattern of n tokens: literals are
\* equal, placeholders take any word.
PrefixAligns(match, ws) ==
    /\ Len(match) <= Len(ws)
    /\ \A k \in DOMAIN match : match[k].ph \/ match[k].w = ws[k]

\* Entry i is longer than no line and its tokens align with the first words
\* of ws, and no earlier entry does the same.
FirstPrefixAligning(ws) ==
    {i \in DOMAIN commands :
        /\ PrefixAligns(commands[i].match, ws)
        /\ \A j \in 1 .. (i - 1) : ~PrefixAligns(commands[j].match, ws)}

\* C4 as stated: a pattern of n tokens matches every line of m > n words
\* whose first n words align with it, the trailing words being ignored, and
\* its handler is invoked when no earlier entry matches.
C4_PrefixTolerant ==
    IsDispatch =>
        \A i \in FirstPrefixAligning(Words[cmdOp.line]) :
            Len(commands[i].match) < Len(Words[cmdOp.line]) =>
                \E k \in HandlerCalls : cmdOp.calls[k].index = i

\* C4 as amended: a pattern of n tokens matches no line of m > n words,
\* even when the first n words align with it: its handler is not invoked,
\* and the line "look around" goes to no_command_matches when "look" is
\* the only pattern its words align with.
C4_NoPrefixMatch ==
    IsDispatch =>
        LET ws == Words[cmdOp.line]
        IN  /\ \A k \in HandlerCalls :
                  Len(commands[cmdOp.calls[k].index].match) >= Len(ws)
            /\ (\A i \in DOMAIN commands :
                    PrefixAligns(commands[i].match, ws)
                        => Len(commands[i].match) < Len(ws))
                  => cmdOp.calls = << FallbackCall(Stripped[cmdOp.line]) >>

\* "look" is registered, the line is "look around", and the fallback ran.
C4_Witness ==
    /\ IsDispatch
    /\ Words[cmdOp.line] = << look, around >>
    /\ \E i \in DOMAIN commands : commands[i].match = << Literal(look) >>
    /\ cmdOp.calls = << FallbackCall(Join2(look, around)) >>

TakeItem == << Literal(take), Placeholder(item) >>

TakeRustyMallet == << Literal(take), Literal(rusty), Literal(mallet) >>

\* "take ITEM" and "take rusty mallet" are both registered and the line is
\* "take rusty mallet".
TakeScenario ==
    /\ IsDispatch
    /\ Words[cmdOp.line] = << take, rusty, mallet >>
    /\ \E i, j \in DOMAIN commands :
          commands[i].match = TakeItem /\ commands[j].match = TakeRustyMallet

FirstWith(match) == Min({i \in DOMAIN commands : commands[i].match = match})

\* C5 as stated: the handler of whichever of the two patterns is registered
\* first is invoked; when that is "take ITEM", with item = "rusty".
C5_OrderDecides ==
    TakeScenario =>
        IF FirstWith(TakeRustyMallet) < FirstWith(TakeItem)
        THEN \A k \in DOMAIN cmdOp.calls :
                cmdOp.calls[k].index = FirstWith(TakeRustyMallet)
        ELSE \A k \in DOMAIN cmdOp.calls :
                /\ cmdOp.calls[k].index = FirstWith(TakeItem)
                /\ cmdOp.calls[k].args = (item :> rusty)

\* C5 as amended: in either registration order the handler of
\* "take rusty mallet" is invoked, once, and the handler of "take ITEM" is
\* not: a pattern of two tokens does not match a line of three words.
C5_SpecificWins ==
    TakeScenario =>
        /\ Len(cmdOp.calls) = 1
        /\ cmdOp.calls[1].index = FirstWith(TakeRustyMallet)
        /\ cmdOp.calls[1].func = commands[FirstWith(TakeRustyMallet)].func

\* "take ITEM" is registered before "take rusty mallet", and the handler
\* of the latter ran.
C5_Witness ==
    /\ TakeScenario
    /\ FirstWith(TakeItem) < FirstWith(TakeRustyMallet)
    /\ commands[FirstWith(TakeItem)].func = "take"
    /\ cmdOp.calls[1].func = "look"

\* The placeholder names of a declaration: its all-uppercase words,
\* lowercased.
PlaceholderNames(command) ==
    {str_lower(w) : w \in {x \in Range(str_split(command)) : str_isupper(x)}}

\* Every character of w is a lowercase letter.
AllLowerAlpha(w) == Len(w) > 0 /\ \A k \in DOMAIN w : CharIsLower(w[k])

\* Every character of w is an uppercase letter.
AllUpperAlpha(w) == Len(w) > 0 /\ \A k \in DOMAIN w : CharIsUpper(w[k])

ValidWord(w) == AllLowerAlpha(w) \/ AllUpperAlpha(w)

ValidGrammar(command) == \A w \in Range(str_split(command)) : ValidWord(w)

\* C6: a command registered with the reserved keyword 'context' registers
\* when its other names equal the handler's parameters; 'context' is not
\* passed to the handler; and the handler is invoked only while Context
\* equals the filter value.
C6_ContextFilter ==
    /\ (IsRegister /\ ctx \in DOMAIN cmdOp.kwargs
          /\ ValidGrammar(cmdOp.command)
          /\ PlaceholderNames(cmdOp.command)
                \cup (DOMAIN cmdOp.kwargs \ {ctx}) = FuncParams[cmdOp.func])
          => cmdOp.raisedAt = 0
    /\ IsTurn =>
          \A k \in HandlerCalls :
              ctx \in DOMAIN commands[cmdOp.calls[k].index].kwargs =>
                  /\ context = commands[cmdOp.calls[k].index].kwargs[ctx]
                  /\ ctx \notin DOMAIN cmdOp.calls[k].args

\* C7: _register succeeds only if the placeholder names of the command and
\* the keys of kwargs together equal func's parameter names; otherwise it
\* raises and leaves the registry unchanged; every entry added through it
\* satisfies the equality, and no handler call of the loop fails on its
\* arguments.
C7_SignatureChecked ==
    /\ IsRegister =>
          /\ cmdOp.raisedAt = 0 =>
                PlaceholderNames(cmdOp.command) \cup DOMAIN cmdOp.kwargs
                    = FuncParams[cmdOp.func]
          /\ (ValidGrammar(cmdOp.command)
                /\ PlaceholderNames(cmdOp.command) \cup DOMAIN cmdOp.kwargs
                      # FuncParams[cmdOp.func])
                => cmdOp.raisedAt = 185
          /\ cmdOp.raisedAt # 0 => commands = cmdOp.before
    /\ \A i \in DOMAIN commands :
          commands[i].func \in UserFuncs =>
              {t.w : t \in {x \in Range(commands[i].match) : x.ph}}
                  \cup DOMAIN commands[i].kwargs
                  = FuncParams[commands[i].func]
    /\ IsTurn =>
          \A k \in DOMAIN cmdOp.calls : cmdOp.calls[k].raised # "TypeError"

\* A well-formed declaration whose handler lacks the placeholder's
\* parameter was refused, and the registry is as before.
C7_Witness ==
    /\ IsRegister
    /\ cmdOp.command = Join2(take, ITEM)
    /\ cmdOp.func = "look"
    /\ cmdOp.raisedAt = 185
    /\ commands = cmdOp.before

\* C8: a declaration with a word that is not purely alphabetic or that
\* mixes cases fails with InvalidCommand and appends nothing; a declaration
\* of all-lowercase and all-uppercase words never fails on its grammar, and
\* the pattern registered for it has one token per word, in order: the
\* word itself as a literal, or a placeholder named by the lowercased word.
C8_GrammarWords ==
    IsRegister =>
        LET words == str_split(cmdOp.command)
        IN  IF ValidGrammar(cmdOp.command)
            THEN /\ cmdOp.raisedAt \in {0, 185}
                 /\ cmdOp.raisedAt = 0 =>
                       LET match == commands[Len(commands)].match
                       IN  /\ commands = Append(cmdOp.before, commands[Len(commands)])
                           /\ Len(match) = Len(words)
                           /\ \A k \in DOMAIN words :
                                 match[k] =
                                    IF AllUpperAlpha(words[k])
                                    THEN Placeholder(str_lower(words[k]))
                                    ELSE Literal(words[k])
            ELSE /\ cmdOp.raisedAt \in {164, 175}
                 /\ commands = cmdOp.before

\* The mixed-case declaration "Take" was refused.
C8_Witness ==
    /\ IsRegister
    /\ cmdOp.command = << "T", "a", "k", "e" >>
    /\ cmdOp.raisedAt = 175
    /\ commands = cmdOp.before

\* A declaration that uses one placeholder name at two positions.
HasDuplicatePlaceholder(command) ==
    LET words == str_split(command)
    IN  \E j, k \in DOMAIN words :
           /\ j < k
           /\ str_isupper(words[j])
           /\ str_lower(words[j]) = str_lower(words[k])
           /\ str_isupper(words[k])

\* C9: registering a declaration that uses the same placeholder name at two
\* positions fails at declaration time and appends nothing to the registry.
C9_DuplicateRejected ==
    (IsRegister /\ HasDuplicatePlaceholder(cmdOp.command)) =>
        /\ cmdOp.raisedAt # 0
        /\ commands = cmdOp.before

\* C10 as stated: a line that is not empty after stripping makes the loop
\* invoke exactly one registered handler, or, when no pattern aligns, the
\* fallback exactly once with the line as typed; never both, never two
\* handlers; after a no-match the loop continues.
C10_OneOutcomeRawLine ==
    IsDispatch =>
        /\ Len(cmdOp.calls) = 1
        /\ cmdOp.calls[1].fallback <=> Aligning(Words[cmdOp.line]) = {}
        /\ cmdOp.calls[1].fallback =>
              /\ cmdOp.calls[1].args = cmdOp.line
              /\ pc = "loop"

\* C10 as amended: the same, the fallback being passed the line as typed
\* with its leading and trailing whitespace stripped (and not lowercased).
C10_OneOutcome ==
    IsDispatch =>
        /\ Len(cmdOp.calls) = 1
        /\ cmdOp.calls[1].fallback <=> Aligning(Words[cmdOp.line]) = {}
        /\ ~cmdOp.calls[1].fallback =>
              cmdOp.calls[1].index \in DOMAIN commands
        /\ cmdOp.calls[1].fallback =>
              /\ cmdOp.calls[1].args = str_strip(cmdOp.line)
              /\ pc = "loop"

\* The line " Look " matched nothing: the fallback got "Look", and the
\* loop goes on.
C10_Witness ==
    /\ IsDispatch
    /\ cmdOp.line = << " ", "L", "o", "o", "k", " " >>
    /\ cmdOp.calls = << FallbackCall(<< "L", "o", "o", "k" >>) >>
    /\ pc = "loop"

\* C11: when the line read is empty or holds whitespace only, the loop
\* calls no handler and not the fallback, prints nothing, leaves the registry
\* and the context as they were, and goes on to the next prompt.
C11_EmptyLineNoOp ==
    (IsTurn /\ Stripped[cmdOp.line] = << >>) =>
        /\ cmdOp.calls = << >>
        /\ ~cmdOp.newline
        /\ commands = cmdOp.before.commands
        /\ context = cmdOp.before.context
        /\ pc = "loop"

\* A line of two spaces was read and the loop goes on, with no call made.
C11_Witness ==
    /\ IsTurn
    /\ cmdOp.line = << " ", " " >>
    /\ cmdOp.calls = << >>
    /\ Len(commands) > Len(InitCommands)
    /\ pc = "loop"

\* C12: when input() raises EOFError, start() prints a newline and leaves
\* the loop without raising and without a call of a handler or of the
\* fallback; and on a finite input stream the loop, once entered, ends:
\* start() returns, or a handler raised SystemExit.
C12_EofTerminates ==
    /\ [](cmdOp.op = "eof" =>
            /\ pc = "done"
            /\ cmdOp.calls = << >>
            /\ cmdOp.newline
            /\ cmdOp.raised = "none")
    /\ (pc = "loop") ~> (pc = "done" \/ pc = "exited")

\* The stream ended after its lines were read, and start() returned.
C12_Witness ==
    /\ cmdOp.op = "eof"
    /\ pc = "done"
    /\ inputLeft = 0
    /\ Len(commands) > Len(InitCommands)

\* The tokens of a pattern and the words of a line are as many, and each
\* literal equals its word.
ExactAligns(match, ws) ==
    /\ Len(match) = Len(ws)
    /\ \A k \in DOMAIN match : match[k].ph \/ match[k].w = ws[k]

\* C20: a pattern of more tokens than the line has words never matches: no
\* handler is called for such an entry, every call passes a capture for
\* each placeholder of its pattern, and the scan goes on to the next
\* entries, so that the first entry that aligns in full is called.
C20_LongerNeverMatches ==
    IsDispatch =>
        LET ws == Words[cmdOp.line]
        IN  /\ \A k \in HandlerCalls :
                  LET match == commands[cmdOp.calls[k].index].match
                  IN  /\ Len(match) <= Len(ws)
                      /\ \A j \in DOMAIN match :
                            match[j].ph =>
                               match[j].w \in DOMAIN cmdOp.calls[k].args
            /\ \A i \in DOMAIN commands :
                  (/\ ExactAligns(commands[i].match, ws)
                   /\ \A j \in 1 .. (i - 1) :
                         ~ExactAligns(commands[j].match, ws))
                     => \E k \in HandlerCalls : cmdOp.calls[k].index = i

\* "take rusty mallet" is registered before "take ITEM"; the line
\* "take rusty" passed the longer pattern and called the handler of the
\* second with item = "rusty".
C20_Witness ==
    /\ IsDispatch
    /\ cmdOp.line = Join2(take, rusty)
    /\ Len(cmdOp.calls) = 1
    /\ ~cmdOp.calls[1].fallback
    /\ commands[cmdOp.calls[1].index].match
          = << Literal(take), Placeholder(item) >>
    /\ cmdOp.calls[1].args[item] = rusty
    /\ \E j \in 1 .. (cmdOp.calls[1].index - 1) :
          commands[j].match
             = << Literal(take), Literal(rusty), Literal(mallet) >>

\* C17: assigning a Room to an attribute name that is not a declared
\* direction raises InvalidDirection and changes no exit slot of any room.
C17_InvalidDirection ==
    (/\ roomOp.op = "setattr"
     /\ roomOp.value \in Rooms
     /\ roomOp.name \notin DOMAIN directions) =>
        /\ roomOp.raised = "InvalidDirection"
        /\ attrs = roomOp.before

\* C18: add_direction(forward, reverse) fails exactly when one of the names
\* is not lowercase or is a registered direction already, and then leaves
\* the direction table as it was; on success it registers forward ->
\* reverse and reverse -> forward and changes no other entry; and the table
\* is symmetric at all times: reverse(reverse(d)) = d for every registered d.
C18_DirectionsSymmetric ==
    /\ roomOp.op = "add_direction" =>
          LET was == roomOp.before
              bad == \/ ~str_islower(roomOp.forward)
                     \/ ~str_islower(roomOp.reverse)
                     \/ roomOp.forward \in DOMAIN was
                     \/ roomOp.reverse \in DOMAIN was
          IN  /\ bad <=> roomOp.raised # "none"
              /\ bad => directions = was
              /\ ~bad =>
                    /\ DOMAIN directions
                          = DOMAIN was \cup {roomOp.forward, roomOp.reverse}
                    /\ directions[roomOp.forward] = roomOp.reverse
                    /\ directions[roomOp.reverse] = roomOp.forward
                    /\ \A d \in DOMAIN was : directions[d] = was[d]
    /\ \A d \in DOMAIN directions :
          /\ directions[d] \in DOMAIN directions
          /\ directions[directions[d]] = d

\* add_direction("up", "north") failed on its second name and registered
\* neither; the table is the module's own.
C18_Witness ==
    /\ roomOp.op = "add_direction"
    /\ roomOp.forward = up
    /\ roomOp.reverse = north
    /\ roomOp.raised = "KeyError"
    /\ up \notin DOMAIN directions
    /\ directions = InitDirections

\* A sequence of str in strictly increasing order.
StrictlySorted(q) == \A j \in 1 .. (Len(q) - 1) : str_lt(q[j], q[j + 1])

\* C19: exit(direction) raises KeyError for a name that was never declared;
\* for a declared direction it returns the room assigned to that exit of
\* the room, or None; exits() returns, in sorted order, exactly the declared
\* directions for which exit(direction) is not None; neither changes the
\* direction table or an exit slot.
C19_ExitAndExits ==
    /\ roomOp.op = "exit" =>
          /\ directions = roomOp.before.directions
          /\ attrs = roomOp.before.attrs
          /\ roomOp.direction \notin DOMAIN directions =>
                roomOp.result.raised = "KeyError"
          /\ roomOp.direction \in DOMAIN directions =>
                /\ roomOp.result.raised = "none"
                /\ roomOp.result.value = attrs[roomOp.self][roomOp.direction]
    /\ roomOp.op = "exits" =>
          /\ directions = roomOp.before.directions
          /\ attrs = roomOp.before.attrs
          /\ StrictlySorted(roomOp.result)
          /\ {roomOp.result[j] : j \in DOMAIN roomOp.result}
                = {d \in DOMAIN directions :
                      exit(roomOp.self, d).value # None}

\* exits() of a room with two exits, one of them in a direction the game
\* declared, listed them in order.
C19_Witness ==
    /\ roomOp.op = "exits"
    /\ Len(roomOp.result) = 2
    /\ roomOp.result[2] = up
    /\ \E d \in DOMAIN directions : exit(roomOp.self, d).value = None

(***************************************************************************)
(* Properties of Items and Bags                                            *)
(***************************************************************************)
IsTake == bagOp.op = "take"

\* The members of a Bag content that hold a name.
Holders(content, name) == {x \in content : HasAlias(x, name)}

\* C13: Bag.take(name) removes exactly one Item that holds the name, returns
\* it and leaves every other member in place; when the returned Item was the
\* only holder, the name is no longer in the bag; when no member holds the
\* name, take returns None and the bag is unchanged.  No other Bag changes.
C13_TakeOne ==
    IsTake =>
        LET was == bagOp.before[bagOp.self]
            now == bags[bagOp.self]
            holders == Holders(was, bagOp.name)
        IN  /\ \A o \in DOMAIN bags \ {bagOp.self} : bags[o] = bagOp.before[o]
            /\ holders # {} =>
                  /\ bagOp.obj \in holders
                  /\ now = was \ {bagOp.obj}
                  /\ Cardinality(now) = Cardinality(was) - 1
                  /\ holders = {bagOp.obj} =>
                        __contains__(bagOp.self, StrQuery(bagOp.name))
                            = [raised |-> "none", value |-> FALSE]
            /\ holders = {} =>
                  /\ bagOp.obj = NoItem
                  /\ now = was

\* take("mallet") on a Bag of two Items that both hold the name returned
\* one and left the other, which still answers to the name.
C13_Witness ==
    /\ IsTake
    /\ bagOp.name = mallet
    /\ bagOp.before[bagOp.self] = {1, 2}
    /\ bagOp.obj = 1
    /\ bags[bagOp.self] = {2}
    /\ __contains__(bagOp.self, StrQuery(mallet)).value

\* C14: for a text query, query in bag is True exactly when a member holds
\* the query among its aliases; for an Item query, item in bag is True
\* exactly when that Item object is a member, and nothing is raised.
C14_DualMode ==
    bagOp.op = "contains" =>
        /\ bagOp.result.raised = "none"
        /\ bagOp.result.value =
              IF bagOp.v.kind = "str"
              THEN Holders(bags[bagOp.self], bagOp.v.v) # {}
              ELSE bagOp.v.v[1] \in bags[bagOp.self]

\* The Room instances whose class carries a template Bag, on the class
\* itself or on a base class.
TemplatedRooms == {r \in DOMAIN roomObjs : Template(roomObjs[r].cls) # NoBag}

\* C15: for Room instances of a class that carries a template Bag, defined
\* on the class or inherited, an add or take on the Bag of one room leaves
\* the Bag of every other room and the class template unchanged.
C15_Independent ==
    bagOp.op \in {"add", "take"} =>
        \A r \in TemplatedRooms :
            RoomItems(r) = bagOp.self =>
                /\ \A o \in TemplatedRooms \ {r} :
                      bags[RoomItems(o)] = bagOp.before[RoomItems(o)]
                /\ bags[Template(roomObjs[r].cls)]
                      = bagOp.before[Template(roomObjs[r].cls)]

\* C16: the copy Room.__init__ makes of a class template Bag is a new
\* container whose members are the same Item objects as the template's.
C16_SameItems ==
    (bagOp.op = "__init__" /\ bagOp.template # NoBag) =>
        /\ bagOp.self # bagOp.template
        /\ bags[bagOp.self] = bags[bagOp.template]

(***************************************************************************)
(* The frame of an exit assignment                                         *)
(***************************************************************************)
\* The exit slots, as pairs of a room and an attribute name, whose value
\* differs from the value before the last assignment.
ChangedSlots ==
    {sl \in Rooms \X AllNames : attrs[sl[1]][sl[2]] # roomOp.before[sl[1]][sl[2]]}

\* C22: a successful assignment room.D = target of a Room writes room's
\* slot D and target's slot reverse(D) and changes no other exit slot of any
\* room, the slots of the rooms the two slots pointed to before included;
\* the assignment of a value that is no Room changes room's slot D only.
C22_AssignmentFrame ==
    (roomOp.op = "setattr" /\ roomOp.raised = "none") =>
        IF roomOp.value \in Rooms
        THEN /\ attrs[roomOp.self][roomOp.name] = roomOp.value
             /\ attrs[roomOp.value][directions[roomOp.name]] = roomOp.self
             /\ ChangedSlots \subseteq
                   { << roomOp.self, roomOp.name >>,
                     << roomOp.value, directions[roomOp.name] >> }
        ELSE /\ attrs[roomOp.self][roomOp.name] = roomOp.value
             /\ ChangedSlots \subseteq { << roomOp.self, roomOp.name >> }

\* room.D pointed to another room before the assignment, both slots
\* changed, and the reverse slot of the earlier target still holds room.
C22_Witness ==
    /\ AssignedRoom
    /\ roomOp.before[roomOp.self][roomOp.name] \in Rooms \ {roomOp.value}
    /\ Cardinality(ChangedSlots) = 2
    /\ LET old == roomOp.before[roomOp.self][roomOp.name]
       IN  /\ old # roomOp.self
           /\ attrs[old][directions[roomOp.name]] = roomOp.self

(***************************************************************************)
(* The built-in quit                                                       *)
(***************************************************************************)
\* The position of the built-in entry ('quit',) in the registry, 0 when it
\* is not there.
BuiltinQuit ==
    IF \E i \in DOMAIN commands : commands[i] = InitCommands[1]
    THEN CHOOSE i \in DOMAIN commands : commands[i] = InitCommands[1]
    ELSE 0

\* C21: the built-in entry ('quit',) is in the registry with only help
\* entries before it, and a line whose one word is quit, in any letter case,
\* makes the loop call the built-in action and nothing else, which ends the
\* loop; no entry the game registered is called for it.
C21_QuitWins ==
    /\ BuiltinQuit # 0
    /\ \A j \in 1 .. (BuiltinQuit - 1) : commands[j].func = "help"
    /\ (IsTurn /\ Words[cmdOp.line] = << quit >>) =>
          /\ cmdOp.calls = << HandlerCall(BuiltinQuit, << >>) >>
          /\ cmdOp.calls[1].func = "sys.exit"
          /\ cmdOp.calls[1].raised = "SystemExit"
          /\ pc = "exited"

\* The game registered the literal "quit" and a single placeholder, both
\* of which align with the line "QUIT"; the line ended the loop.
C21_Witness ==
    /\ IsTurn
    /\ cmdOp.line = << "Q", "U", "I", "T" >>
    /\ pc = "exited"
    /\ \E j \in DOMAIN commands :
          /\ commands[j].match = << Literal(quit) >>
          /\ commands[j].func = "look"
    /\ \E j \in DOMAIN commands :
          commands[j].match = << Placeholder(item) >>
    /\ Cardinality(Aligning(Words[cmdOp.line])) = 3

====
